---- MODULE Spec2Model ----
(***************************************************************************)
(* The on-demand HLS session manager (package hls, ManagerCtx).            *)
(*                                                                         *)
(* One session, its lock, its generation-scoped channels, and the          *)
(* goroutines that share it: playlist requests, the output reader and the  *)
(* reaper of every generation, the deferred directory removal of every     *)
(* Stop, and an embedding caller that uses the public Stop.                *)
(*                                                                         *)
(* Time is relative: every timer is kept as the time elapsed or left.      *)
(* Computation takes no time: the clock advances only when every goroutine *)
(* is blocked (on a channel, a pipe read, a timer) or has not arrived.     *)
(* Fields read or written without the lock are separate steps, so that     *)
(* unsynchronised readers see the intermediate states of Start.            *)
(***************************************************************************)
EXTENDS Integers, FiniteSets, Sequences, TLC

\* ---- bounds of the model ------------------------------------------------
MaxGen == 2
NumReq == 2
MaxChunks == 2
TimeStep == 4

\* ---- constants of the program -------------------------------------------
cleanupPeriod == 4
playlistTimeout == 20
hlsMinimumSegments == 2
activeIdleTimeout == 12
inactiveIdleTimeout == 24
removeDelay == 2

\* ---- values -------------------------------------------------------------
Gen == 1..MaxGen
Req == 1..NumReq
Nil == 0
Free == -1
NoTimer == -1
NewChan == 0
Empty == <<0, 0>>
IdleCap == inactiveIdleTimeout + cleanupPeriod + 1

ErrConflict == "has already started"
ErrMkdir == "mkdir failed"
ErrSpawn == "spawn failed"
BodyNotFound == "404 playlist not found"
BodyTimeout == "500 not available"

NoResp == [code |-> 0, body |-> Empty]

\* the locals of a ServePlaylist call: position, the copy of m.playlist, the
\* channels its select evaluated, the time it has been parked
NewReq == [pc |-> "new", playlist |-> Empty, pl |-> NewChan, sd |-> NewChan,
           wait |-> 0]
DoneReq == [NewReq EXCEPT !.pc = "done"]

Min(a, b) == IF a < b THEN a ELSE b

VARIABLES
    cmd, process, tempdir, active, sinceLastRequest, sequence, playlist,
    playlistLoad, shutdown,
    mu, spc, gens, dirs, plClosed, sdClosed, panicked,
    onStartCalls, onStopCalls,
    reader, sendCh, sendVal, nread, pipeClosed,
    reaper, rch, ticker, rmTimer,
    req, resp, media, mresp,
    sawAct, activated, sinceActive

session == <<cmd, process, tempdir, active, sinceLastRequest, sequence,
             playlist, playlistLoad, shutdown>>
ctl == <<mu, spc, gens, dirs, plClosed, sdClosed, panicked,
         onStartCalls, onStopCalls>>
rd == <<reader, sendCh, sendVal, nread, pipeClosed>>
rp == <<reaper, rch, ticker, rmTimer>>
rq == <<req, resp>>
\* the ServeMedia request: its position and the status it answered
md == <<media, mresp>>
\* what happened, recorded for the properties and read by no action:
\* sawAct[r]: the session became active while r was being served and before
\* r's timer fired;
\* activated: the session became active since the last Start that returned
\* nil; sinceActive: the time since the active flag was last set
hist == <<sawAct, activated, sinceActive>>
vars == <<session, ctl, rd, rp, rq, md, hist>>

\* New(): no subprocess, fresh channels, zero lastRequest
Init ==
    /\ cmd = Nil
    /\ process = [g \in Gen |-> "unset"]
    /\ tempdir = Nil
    /\ active = FALSE
    /\ sinceLastRequest = IdleCap
    /\ sequence = 0
    /\ playlist = Empty
    /\ playlistLoad = NewChan
    /\ shutdown = NewChan
    /\ mu = Free
    /\ spc = "idle"
    /\ gens = 0
    /\ dirs = {}
    /\ plClosed = {}
    /\ sdClosed = {}
    /\ panicked = FALSE
    /\ onStartCalls = 0
    /\ onStopCalls = 0
    /\ reader = [g \in Gen |-> "none"]
    /\ sendCh = [g \in Gen |-> NewChan]
    /\ sendVal = [g \in Gen |-> Empty]
    /\ nread = [g \in Gen |-> 0]
    /\ pipeClosed = [g \in Gen |-> FALSE]
    /\ reaper = [g \in Gen |-> "none"]
    /\ rch = [g \in Gen |-> NewChan]
    /\ ticker = [g \in Gen |-> NoTimer]
    /\ rmTimer = [g \in Gen |-> NoTimer]
    /\ req = [r \in Req |-> NewReq]
    /\ resp = [r \in Req |-> NoResp]
    /\ media = "new"
    /\ mresp = 0
    /\ sawAct = [r \in Req |-> FALSE]
    /\ activated = FALSE
    /\ sinceActive = 0

\* ---- responses ----------------------------------------------------------
Resp(code, body) == [code |-> code, body |-> body]

\* the requests parked in the select of ServePlaylist on handoff channel ch
ParkedOnLoad(ch) == {r \in Req : req[r].pc = "wait" /\ req[r].pl = ch}

\* the requests parked in the select of ServePlaylist on shutdown channel ch
ParkedOnShutdown(ch) == {r \in Req : req[r].pc = "wait" /\ req[r].sd = ch}

\* request r writes its response and returns
Respond(r, code, body) ==
    /\ req' = [req EXCEPT ![r] = DoneReq]
    /\ resp' = [resp EXCEPT ![r] = Resp(code, body)]

\* the requests of set rs, woken in a select, respond alike and return
RespondAll(rs, code, body) ==
    /\ req' = [r \in Req |-> IF r \in rs THEN DoneReq ELSE req[r]]
    /\ resp' = [r \in Req |-> IF r \in rs THEN Resp(code, body) ELSE resp[r]]

\* ---- Start --------------------------------------------------------------
\* Start resetting the generation-scoped fields before its check
StartConflictResets(r) ==
    /\ cmd # Nil
    /\ Respond(r, 500, ErrConflict)
    /\ active' = FALSE
    /\ sequence' = 0
    /\ playlist' = Empty
    /\ UNCHANGED <<cmd, process, tempdir, sinceLastRequest, playlistLoad,
                   shutdown, ctl>>

\* Start, lines 68-73, called by request r: under the lock, a session that
\* has a subprocess handle answers "has already started"
StartConflict(r) ==
    /\ cmd # Nil
    /\ Respond(r, 500, ErrConflict)
    /\ UNCHANGED <<session, ctl>>

\* Start, lines 77-81: MkdirTemp fails, m.tempdir is left empty
StartMkdirFails(r) ==
    /\ cmd = Nil
    /\ tempdir' = Nil
    /\ Respond(r, 500, ErrMkdir)
    /\ UNCHANGED <<cmd, process, active, sinceLastRequest, sequence,
                   playlist, playlistLoad, shutdown, ctl>>

\* Start, lines 77-84: a fresh working directory and the subprocess handle
StartLaunch(r) ==
    /\ cmd = Nil
    /\ gens < MaxGen
    /\ gens' = gens + 1
    /\ tempdir' = gens + 1
    /\ dirs' = dirs \cup {gens + 1}
    /\ cmd' = gens + 1
    /\ mu' = r
    /\ spc' = "reset"
    /\ req' = [req EXCEPT ![r].pc = "inStart"]
    /\ UNCHANGED <<process, active, sinceLastRequest, sequence, playlist,
                   playlistLoad, shutdown, plClosed, sdClosed, panicked,
                   onStartCalls, onStopCalls, resp>>

\* Start, lines 67-84, as called by ServePlaylist for request r
StartEnter(r) ==
    /\ ~panicked
    /\ mu = Free
    /\ req[r].pc = "callStart"
    /\ \/ StartConflict(r)
       \/ StartMkdirFails(r)
       \/ StartLaunch(r)
    /\ UNCHANGED <<rd, rp, hist>>
    /\ UNCHANGED <<media, mresp>>

\* Start, lines 98-102: the generation-scoped fields are reset
StartReset ==
    /\ ~panicked
    /\ mu # Free
    /\ spc = "reset"
    /\ active' = FALSE
    /\ sinceLastRequest' = 0
    /\ sequence' = 0
    /\ playlist' = Empty
    /\ spc' = "chans"
    /\ UNCHANGED <<cmd, process, tempdir, playlistLoad, shutdown,
                   mu, gens, dirs, plClosed, sdClosed, panicked,
                   onStartCalls, onStopCalls, rd, rp, rq, sawAct, activated>>
    /\ sinceActive' = 0
    /\ UNCHANGED <<media, mresp>>

\* Start, lines 104-152: fresh channels, the two goroutines, the on-start hook
StartChannels ==
    /\ ~panicked
    /\ mu # Free
    /\ spc = "chans"
    /\ playlistLoad' = cmd
    /\ shutdown' = cmd
    /\ reader' = [reader EXCEPT ![cmd] = "read"]
    /\ reaper' = [reaper EXCEPT ![cmd] = "enter"]
    /\ ticker' = [ticker EXCEPT ![cmd] = cleanupPeriod]
    /\ onStartCalls' = onStartCalls + 1
    /\ spc' = "spawn"
    /\ UNCHANGED <<cmd, process, tempdir, active, sinceLastRequest, sequence,
                   playlist, mu, gens, dirs, plClosed, sdClosed, panicked,
                   onStopCalls, sendCh, sendVal, nread, pipeClosed,
                   rch, rmTimer, rq, hist>>
    /\ UNCHANGED <<media, mresp>>

\* Start, line 154: cmd.Start() spawns the subprocess or fails; unlock
StartSpawn(ok) ==
    /\ ~panicked
    /\ mu # Free
    /\ spc = "spawn"
    /\ process' = IF ok THEN [process EXCEPT ![cmd] = "running"] ELSE process
    /\ IF ok
       THEN /\ req' = [req EXCEPT ![mu].pc = "checkActive"]
            /\ UNCHANGED resp
       ELSE Respond(mu, 500, ErrSpawn)
    /\ mu' = Free
    /\ spc' = "idle"
    /\ UNCHANGED <<cmd, tempdir, active, sinceLastRequest, sequence, playlist,
                   playlistLoad, shutdown, gens, dirs, plClosed, sdClosed,
                   panicked, onStartCalls, onStopCalls, rd, rp,
                   sawAct, sinceActive>>
    /\ activated' = IF ok THEN FALSE ELSE activated
    /\ UNCHANGED <<media, mresp>>

\* ---- Stop ---------------------------------------------------------------
\* Stop clearing the handle without killing the subprocess
KillGroupSkipped == process

\* Stop, lines 168-177: a subprocess that was spawned is killed with its group
KillGroup ==
    IF process[cmd] = "running"
    THEN [process EXCEPT ![cmd] = "killed"] ELSE process

\* Stop, lines 168 and 178: the handle is cleared inside `if Process != nil`
ClearHandle == IF process[cmd] # "unset" THEN Nil ELSE cmd

\* Stop, lines 157-189
Stop ==
    IF cmd = Nil
    THEN UNCHANGED <<session, ctl, rmTimer, req, resp>>
    ELSE IF shutdown \in sdClosed
    THEN /\ panicked' = TRUE
         /\ UNCHANGED <<session, mu, spc, gens, dirs, plClosed, sdClosed,
                        onStartCalls, onStopCalls, rmTimer, req, resp>>
    ELSE /\ sdClosed' = sdClosed \cup {shutdown}
         /\ RespondAll(ParkedOnShutdown(shutdown), 404, BodyNotFound)
         /\ process' = KillGroup
         /\ cmd' = ClearHandle
         /\ rmTimer' = [rmTimer EXCEPT ![cmd] = removeDelay]
         /\ onStopCalls' = onStopCalls + 1
         /\ UNCHANGED <<tempdir, active, sinceLastRequest, sequence, playlist,
                        playlistLoad, shutdown, mu, spc, gens, dirs, plClosed,
                        panicked, onStartCalls>>

\* the embedding application calls Stop
ExtStop ==
    /\ ~panicked
    /\ mu = Free
    /\ Stop
    /\ UNCHANGED <<rd, reaper, rch, ticker, hist>>
    /\ UNCHANGED <<media, mresp>>

\* the deferred removal of Stop, lines 181-184: RemoveAll(m.tempdir)
RemoveFire(g) ==
    /\ ~panicked
    /\ rmTimer[g] = 0
    /\ dirs' = dirs \ {tempdir}
    /\ rmTimer' = [rmTimer EXCEPT ![g] = NoTimer]
    /\ UNCHANGED <<session, mu, spc, gens, plClosed, sdClosed, panicked,
                   onStartCalls, onStopCalls, rd, reaper, rch, ticker, rq,
                   hist>>
    /\ UNCHANGED <<media, mresp>>

\* ---- the subprocess and the Output Reader -------------------------------
\* reader goroutine, lines 111-114: the subprocess of generation g writes a
\* playlist revision (a killed one may have left it in the pipe); the
\* non-empty read replaces m.playlist and increments m.sequence
ReaderRead(g) ==
    /\ ~panicked
    /\ reader[g] = "read"
    /\ ~pipeClosed[g]
    /\ process[g] # "unset"
    /\ nread[g] < MaxChunks
    /\ playlist' = <<g, nread[g] + 1>>
    /\ sequence' = sequence + 1
    /\ nread' = [nread EXCEPT ![g] = nread[g] + 1]
    /\ reader' = [reader EXCEPT ![g] = "check"]
    /\ UNCHANGED <<cmd, process, tempdir, active, sinceLastRequest,
                   playlistLoad, shutdown, ctl, sendCh, sendVal,
                   pipeClosed, rp, rq, hist>>
    /\ UNCHANGED <<media, mresp>>

\* reader goroutine, lines 121-123: at the minimum the session becomes active
\* and the operands of the send are evaluated
ReaderCheck(g) ==
    /\ ~panicked
    /\ reader[g] = "check"
    /\ IF sequence = hlsMinimumSegments
       THEN /\ active' = TRUE
            /\ sendCh' = [sendCh EXCEPT ![g] = playlistLoad]
            /\ sendVal' = [sendVal EXCEPT ![g] = playlist]
            /\ reader' = [reader EXCEPT ![g] = "send"]
            /\ sawAct' = [r \in Req |-> /\ req[r].pc \notin {"new", "done"}
                                        /\ req[r].wait < playlistTimeout]
            /\ activated' = TRUE
            /\ sinceActive' = 0
       ELSE /\ reader' = [reader EXCEPT ![g] = "read"]
            /\ UNCHANGED <<active, sendCh, sendVal, sawAct, activated,
                           sinceActive>>
    /\ UNCHANGED <<cmd, process, tempdir, sinceLastRequest, sequence, playlist,
                   playlistLoad, shutdown, ctl, nread, pipeClosed, rp, rq>>
    /\ UNCHANGED <<media, mresp>>

\* reader goroutine, line 123: the unbuffered send meets one parked request
\* (or panics on a closed channel)
ReaderSend(g) ==
    /\ ~panicked
    /\ reader[g] = "send"
    /\ \/ /\ sendCh[g] \in plClosed
          /\ panicked' = TRUE
          /\ UNCHANGED <<reader, sendCh, sendVal, req, resp>>
       \/ /\ sendCh[g] \notin plClosed
          /\ \E r \in ParkedOnLoad(sendCh[g]) : Respond(r, 200, sendVal[g])
          /\ reader' = [reader EXCEPT ![g] = "close"]
          /\ sendCh' = [sendCh EXCEPT ![g] = NewChan]
          /\ sendVal' = [sendVal EXCEPT ![g] = Empty]
          /\ UNCHANGED panicked
    /\ UNCHANGED <<session, mu, spc, gens, dirs, plClosed, sdClosed,
                   onStartCalls, onStopCalls, nread, pipeClosed, rp, hist>>
    /\ UNCHANGED <<media, mresp>>

\* reader goroutine, line 124: close(m.playlistLoad) wakes every request
\* parked on it with the zero value (or panics on a closed channel)
ReaderClose(g) ==
    /\ ~panicked
    /\ reader[g] = "close"
    /\ IF playlistLoad \in plClosed
       THEN /\ panicked' = TRUE
            /\ UNCHANGED <<plClosed, reader, req, resp>>
       ELSE /\ plClosed' = plClosed \cup {playlistLoad}
            /\ RespondAll(ParkedOnLoad(playlistLoad), 200, Empty)
            /\ reader' = [reader EXCEPT ![g] = "read"]
            /\ UNCHANGED panicked
    /\ UNCHANGED <<session, mu, spc, gens, dirs, sdClosed,
                   onStartCalls, onStopCalls, sendCh, sendVal, nread,
                   pipeClosed, rp, hist>>
    /\ UNCHANGED <<media, mresp>>

\* reader goroutine, lines 128-131: the read fails once the pipe is closed
ReaderEOF(g) ==
    /\ ~panicked
    /\ reader[g] = "read"
    /\ pipeClosed[g]
    /\ reader' = [reader EXCEPT ![g] = "done"]
    /\ UNCHANGED <<session, ctl, sendCh, sendVal, nread, pipeClosed, rp, rq,
                   hist>>
    /\ UNCHANGED <<media, mresp>>

\* ---- the Idle Reaper and Cleanup ----------------------------------------
\* reaper goroutine, lines 140-141: the select evaluates m.shutdown
ReaperEnter(g) ==
    /\ ~panicked
    /\ reaper[g] = "enter"
    /\ rch' = [rch EXCEPT ![g] = shutdown]
    /\ reaper' = [reaper EXCEPT ![g] = "select"]
    /\ UNCHANGED <<session, ctl, rd, ticker, rmTimer, rq, hist>>
    /\ UNCHANGED <<media, mresp>>

\* reaper goroutine, lines 141-143: shutdown closes the pipe's write side
ReaperShutdown(g) ==
    /\ ~panicked
    /\ reaper[g] = "select"
    /\ rch[g] \in sdClosed
    /\ pipeClosed' = [pipeClosed EXCEPT ![g] = TRUE]
    /\ reaper' = [reaper EXCEPT ![g] = "done"]
    /\ rch' = [rch EXCEPT ![g] = NewChan]
    /\ ticker' = [ticker EXCEPT ![g] = NoTimer]
    /\ UNCHANGED <<session, ctl, reader, sendCh, sendVal, nread, rmTimer, rq,
                   hist>>
    /\ UNCHANGED <<media, mresp>>

\* Cleanup applying the active timeout to every session
ShouldStopOneTier(isActive, diff) == diff > activeIdleTimeout

\* Cleanup, line 194: the two-tier idle policy
ShouldStop(isActive, diff) ==
    \/ isActive /\ diff > activeIdleTimeout
    \/ ~isActive /\ diff > inactiveIdleTimeout

\* reaper goroutine, lines 144-145 and Cleanup, lines 192-195: on a tick the
\* idle time is compared under the lock; a session that is kept leads back
\* to the select, which evaluates m.shutdown again
ReaperTick(g) ==
    /\ ~panicked
    /\ reaper[g] = "select"
    /\ ticker[g] = 0
    /\ mu = Free
    /\ ticker' = [ticker EXCEPT ![g] = cleanupPeriod]
    /\ IF ShouldStop(active, sinceLastRequest)
       THEN /\ reaper' = [reaper EXCEPT ![g] = "cleanup"]
            /\ UNCHANGED rch
       ELSE /\ rch' = [rch EXCEPT ![g] = shutdown]
            /\ UNCHANGED reaper
    /\ UNCHANGED <<session, ctl, rd, rmTimer, rq, hist>>
    /\ UNCHANGED <<media, mresp>>

\* Cleanup, lines 204-206: Stop is called after the lock was released
ReaperStop(g) ==
    /\ ~panicked
    /\ reaper[g] = "cleanup"
    /\ mu = Free
    /\ Stop
    /\ reaper' = [reaper EXCEPT ![g] = "enter"]
    /\ UNCHANGED <<rd, rch, ticker, hist>>
    /\ UNCHANGED <<media, mresp>>

\* ---- ServePlaylist ------------------------------------------------------
\* lines 210-214: lastRequest is set under the lock, m.playlist is read
Arrive(r) ==
    /\ ~panicked
    /\ mu = Free
    /\ req[r].pc = "new"
    /\ sinceLastRequest' = 0
    /\ req' = [req EXCEPT ![r].pc = "checkCmd", ![r].playlist = playlist]
    /\ UNCHANGED <<cmd, process, tempdir, active, sequence, playlist,
                   playlistLoad, shutdown, ctl, rd, rp, resp, hist>>
    /\ UNCHANGED <<media, mresp>>

\* line 216: without a subprocess handle the request calls Start
CheckCmd(r) ==
    /\ ~panicked
    /\ req[r].pc = "checkCmd"
    /\ req' = [req EXCEPT ![r].pc =
                 IF cmd = Nil THEN "callStart" ELSE "checkActive"]
    /\ UNCHANGED <<session, ctl, rd, rp, resp, hist>>
    /\ UNCHANGED <<media, mresp>>

\* lines 226 and 242-244: an active session is answered from the local copy
CheckActive(r) ==
    /\ ~panicked
    /\ req[r].pc = "checkActive"
    /\ IF active
       THEN Respond(r, 200, req[r].playlist)
       ELSE /\ req' = [req EXCEPT ![r].pc = "selPL"]
            /\ UNCHANGED resp
    /\ UNCHANGED <<session, ctl, rd, rp, hist>>
    /\ UNCHANGED <<media, mresp>>

\* line 228: the select evaluates m.playlistLoad
SelectLoad(r) ==
    /\ ~panicked
    /\ req[r].pc = "selPL"
    /\ req' = [req EXCEPT ![r].pc = "selSD", ![r].pl = playlistLoad]
    /\ UNCHANGED <<session, ctl, rd, rp, resp, hist>>
    /\ UNCHANGED <<media, mresp>>

\* the readers blocked in their send on channel ch
Senders(ch) ==
    {g \in Gen : reader[g] = "send" /\ sendCh[g] = ch /\ ch \notin plClosed}

\* lines 229-234: the select evaluates m.shutdown, starts the timer and takes
\* a case that is ready, or parks the request
SelectEnter(r) ==
    /\ ~panicked
    /\ req[r].pc = "selSD"
    /\ \/ \E g \in Senders(req[r].pl) :
             /\ reader' = [reader EXCEPT ![g] = "close"]
             /\ sendCh' = [sendCh EXCEPT ![g] = NewChan]
             /\ sendVal' = [sendVal EXCEPT ![g] = Empty]
             /\ Respond(r, 200, sendVal[g])
       \/ /\ req[r].pl \in plClosed
          /\ Respond(r, 200, Empty)
          /\ UNCHANGED <<reader, sendCh, sendVal>>
       \/ /\ shutdown \in sdClosed
          /\ Respond(r, 404, BodyNotFound)
          /\ UNCHANGED <<reader, sendCh, sendVal>>
       \/ /\ Senders(req[r].pl) = {}
          /\ req[r].pl \notin plClosed
          /\ shutdown \notin sdClosed
          /\ req' = [req EXCEPT ![r].pc = "wait", ![r].sd = shutdown]
          /\ UNCHANGED <<reader, sendCh, sendVal, resp>>
    /\ UNCHANGED <<session, ctl, nread, pipeClosed, rp, hist>>
    /\ UNCHANGED <<media, mresp>>

\* lines 234-238: the wait timed out
Timeout(r) ==
    /\ ~panicked
    /\ req[r].pc = "wait"
    /\ req[r].wait = playlistTimeout
    /\ Respond(r, 500, BodyTimeout)
    /\ UNCHANGED <<session, ctl, rd, rp, hist>>
    /\ UNCHANGED <<media, mresp>>

\* ---- ServeMedia ---------------------------------------------------------
\* ServeMedia touching lastRequest before it looks for the file
ServeMediaStatTouches(exists) ==
    /\ ~panicked
    /\ media = "new"
    /\ mu = Free
    /\ exists => (tempdir = Nil \/ tempdir \in dirs)
    /\ sinceLastRequest' = 0
    /\ media' = IF exists THEN "found" ELSE "done"
    /\ mresp' = IF exists THEN mresp ELSE 404
    /\ UNCHANGED <<cmd, process, tempdir, active, sequence, playlist,
                   playlistLoad, shutdown, ctl, rd, rp, rq, hist>>

\* lines 248-256: os.Stat of the file under m.tempdir (with an empty
\* m.tempdir the path is relative to the process directory); a file that
\* does not exist is answered 404 "media not found"
ServeMediaStat(exists) ==
    /\ ~panicked
    /\ media = "new"
    /\ exists => (tempdir = Nil \/ tempdir \in dirs)
    /\ media' = IF exists THEN "found" ELSE "done"
    /\ mresp' = IF exists THEN mresp ELSE 404
    /\ UNCHANGED <<session, ctl, rd, rp, rq, hist>>

\* lines 258-264: lastRequest is set under the lock and the file is handed
\* to http.ServeFile
ServeMediaFile ==
    /\ ~panicked
    /\ media = "found"
    /\ mu = Free
    /\ sinceLastRequest' = 0
    /\ media' = "done"
    /\ mresp' = 200
    /\ UNCHANGED <<cmd, process, tempdir, active, sequence, playlist,
                   playlistLoad, shutdown, ctl, rd, rp, rq, hist>>

\* ---- time ---------------------------------------------------------------
\* every goroutine is blocked or absent
Quiescent ==
    /\ mu = Free
    /\ \A r \in Req : req[r].pc \in {"new", "wait", "done"}
    /\ media \in {"new", "done"}
    /\ \A g \in Gen :
          \/ reader[g] \in {"none", "done"}
          \/ reader[g] = "read" /\ ~pipeClosed[g]
          \/ reader[g] = "send" /\ sendCh[g] \notin plClosed
                                /\ ParkedOnLoad(sendCh[g]) = {}
    /\ \A g \in Gen :
          \/ reaper[g] \in {"none", "done"}
          \/ reaper[g] = "select" /\ rch[g] \notin sdClosed

\* the time left to each pending timer
Deadlines ==
    {ticker[g] : g \in {h \in Gen : reaper[h] = "select"}}
    \cup {rmTimer[g] : g \in {h \in Gen : rmTimer[h] # NoTimer}}
    \cup {playlistTimeout - req[r].wait : r \in {q \in Req : req[q].pc = "wait"}}

\* the clock advances by d, never past a deadline
Tick ==
    /\ ~panicked
    /\ Quiescent
    /\ Deadlines # {}
    /\ \A t \in Deadlines : t > 0
    /\ LET d == CHOOSE x \in 1..TimeStep :
                  /\ \A t \in Deadlines : x <= t
                  /\ x = TimeStep \/ x \in Deadlines
       IN /\ sinceLastRequest' = Min(sinceLastRequest + d, IdleCap)
          /\ sinceActive' = IF active
                            THEN Min(sinceActive + d, cleanupPeriod + 1)
                            ELSE 0
          /\ ticker' = [g \in Gen |->
                          IF reaper[g] = "select" THEN ticker[g] - d
                          ELSE ticker[g]]
          /\ rmTimer' = [g \in Gen |->
                          IF rmTimer[g] # NoTimer THEN rmTimer[g] - d
                          ELSE rmTimer[g]]
          /\ req' = [r \in Req |->
                       IF req[r].pc = "wait"
                       THEN [req[r] EXCEPT !.wait = req[r].wait + d]
                       ELSE req[r]]
    /\ UNCHANGED <<cmd, process, tempdir, active, sequence, playlist,
                   playlistLoad, shutdown, ctl, rd, reaper, rch, resp,
                   sawAct, activated>>
    /\ UNCHANGED <<media, mresp>>

Next ==
    \/ \E r \in Req : StartEnter(r)
    \/ StartReset
    \/ StartChannels
    \/ \E ok \in BOOLEAN : StartSpawn(ok)
    \/ ExtStop
    \/ \E g \in Gen : RemoveFire(g)
    \/ \E g \in Gen : ReaderRead(g)
    \/ \E g \in Gen : ReaderCheck(g)
    \/ \E g \in Gen : ReaderSend(g)
    \/ \E g \in Gen : ReaderClose(g)
    \/ \E g \in Gen : ReaderEOF(g)
    \/ \E g \in Gen : ReaperEnter(g)
    \/ \E g \in Gen : ReaperShutdown(g)
    \/ \E g \in Gen : ReaperTick(g)
    \/ \E g \in Gen : ReaperStop(g)
    \/ \E r \in Req : Arrive(r)
    \/ \E r \in Req : CheckCmd(r)
    \/ \E r \in Req : CheckActive(r)
    \/ \E r \in Req : SelectLoad(r)
    \/ \E r \in Req : SelectEnter(r)
    \/ \E r \in Req : Timeout(r)
    \/ \E exists \in BOOLEAN : ServeMediaStat(exists)
    \/ ServeMediaFile
    \/ Tick

Spec == Init /\ [][Next]_vars

\* ======== properties =====================================================

\* a step in which request r's call of Start returns or enters its body
StartCalled(r) == req[r].pc = "callStart" /\ req'[r].pc # "callStart"

\* a step in which a Stop that found a handle ran to its end
StopTookEffect == onStopCalls' = onStopCalls + 1

\* C1: a call of Start on a session that has a subprocess handle answers
\* "has already started" and changes nothing: no field of the session, no
\* channel, no directory, no goroutine, no hook call, and the lock is free
C1_StartConflict ==
    [][\A r \in Req :
         StartCalled(r) /\ cmd # Nil
         => /\ resp'[r] = Resp(500, ErrConflict)
            /\ UNCHANGED <<session, ctl, rd, rp>>]_vars

\* a request lost the race for Start and was answered with the conflict
C1_Witness == \E r \in Req : resp[r] = Resp(500, ErrConflict)

\* C10: a subprocess that was spawned and not killed is the one the
\* session's handle refers to, so there is at most one
C10_SingleSubprocess == \A g \in Gen : process[g] = "running" => cmd = g

\* the second generation runs after the first was killed
C10_Witness ==
    \E g \in Gen : g > 1 /\ process[g] = "running" /\ process[1] = "killed"

\* ---- C2 -----------------------------------------------------------------
\* the value m.playlist has when the first generation becomes active
FirstPlaylist == <<1, hlsMinimumSegments>>

\* C2: a request that was being served, its wait not timed out, when the
\* session became active, no Stop having been called, answers 200 with the
\* playlist revision of the activation
C2_FirstPlaylistDelivered ==
    \A r \in Req :
        (req[r].pc = "done" /\ sawAct[r] /\ onStopCalls = 0)
        => resp[r] = Resp(200, FirstPlaylist)

\* ---- C3 -----------------------------------------------------------------
\* C3: when Stop closes the shutdown signal of a session that is not active,
\* every request parked in its wait for the first playlist, its timer not
\* yet due, answers 404 "playlist not found"
C3_ShutdownPreemptsWait ==
    [][StopTookEffect /\ ~active
       => \A r \in Req :
            (req[r].pc = "wait" /\ req[r].wait < playlistTimeout)
            => resp'[r] = Resp(404, BodyNotFound)]_vars

\* ---- C4 -----------------------------------------------------------------
\* the session has a subprocess handle, is not being started and was not shut
\* down
Live == cmd # Nil /\ mu = Free /\ shutdown \notin sdClosed /\ ~panicked

\* reaper g takes a tick and Cleanup computes its decision
TickTaken(g) ==
    reaper[g] = "select" /\ ticker[g] = 0 /\ ticker'[g] = cleanupPeriod

NoSubprocess == cmd = Nil \/ process[cmd] # "running"

\* C5: while no subprocess is running for the session, no call of Stop
\* closes a shutdown channel, schedules a directory removal or invokes the
\* on-stop hook
C5_StopIdempotent ==
    [][NoSubprocess /\ mu = Free
       => /\ sdClosed' = sdClosed
          /\ onStopCalls' = onStopCalls
          /\ \A g \in Gen : rmTimer[g] = NoTimer => rmTimer'[g] = NoTimer]_vars

\* ---- C6 -----------------------------------------------------------------
\* C6: the session is active only with a sequence count at the minimum or
\* above, and once it became active it stays active until a Start that
\* returns nil
C6_ActivationOneWay ==
    /\ active => sequence >= hlsMinimumSegments
    /\ (activated /\ mu = Free) => active

\* ---- C7 -----------------------------------------------------------------
\* request r's call of Start returns the error of MkdirTemp or of cmd.Start
StartFailed(r) ==
    /\ resp[r] = NoResp
    /\ resp'[r] \in {Resp(500, ErrMkdir), Resp(500, ErrSpawn)}

\* C7: a Start that fails at the working directory or at the spawn leaves no
\* subprocess handle, and no output reader or reaper that it launched runs
C7_LaunchFailureUnstarted ==
    [][\A r \in Req :
         StartFailed(r)
         => /\ cmd' = Nil
            /\ \A g \in Gen :
                 g = cmd => /\ reader'[g] \in {"none", "done"}
                            /\ reaper'[g] \in {"none", "done"}]_vars

\* ---- C8 -----------------------------------------------------------------
\* C8: when a Stop that found a handle returns, the handle is absent
C8_StopFreesSession == [][StopTookEffect => cmd' = Nil]_vars

\* ---- C9 -----------------------------------------------------------------
\* the deferred removal scheduled by the Stop of generation g fires
RemovalFires(g) == rmTimer[g] = 0 /\ rmTimer'[g] = NoTimer

\* C9: the deferred removal of the Stop that ended generation g deletes the
\* working directory of g and no other, and the working directory of a
\* generation whose subprocess runs exists
C9_CleanupPerGeneration ==
    /\ [][\A g \in Gen : RemovalFires(g) => dirs' = dirs \ {g}]_vars
    /\ [](\A g \in Gen : process[g] = "running" => g \in dirs)

\* ---- C11 ----------------------------------------------------------------
\* reaper g's call of Stop, at the end of Cleanup, found a handle and ran
ReaperStopEffect(g) ==
    reaper[g] = "cleanup" /\ reaper'[g] = "enter" /\ StopTookEffect

\* C11: the 500 "not available" is answered only by a request parked for
\* playlistTimeout, no request stays parked longer, and the reaper's Stop of
\* a session that is not active answers no request 404 whose timer is not
\* yet due
C11_WaitTimesOut ==
    /\ [][\A r \in Req :
            (resp[r] = NoResp /\ resp'[r] = Resp(500, BodyTimeout))
            => (req[r].pc = "wait" /\ req[r].wait = playlistTimeout)]_vars
    /\ [](\A r \in Req : req[r].pc = "wait" => req[r].wait <= playlistTimeout)
    /\ [][\A g \in Gen :
            (ReaperStopEffect(g) /\ ~active)
            => \A r \in Req :
                 (req[r].pc = "wait" /\ req[r].wait < playlistTimeout)
                 => resp'[r] # Resp(404, BodyNotFound)]_vars

\* ---- C12 ----------------------------------------------------------------
\* C12: a step of ServeMedia changes no field of the session but
\* lastRequest, starts nothing and touches no goroutine or request; it sets
\* lastRequest to the current time exactly when it found the file, and a
\* request for an absent file is answered 404 with lastRequest unchanged
C12_ServeMediaFrame ==
    [][md' # md
       => /\ UNCHANGED <<cmd, process, tempdir, active, sequence, playlist,
                         playlistLoad, shutdown, ctl, rd, rp, rq>>
          /\ (media = "new" /\ media' = "done")
                => (mresp' = 404 /\ UNCHANGED sinceLastRequest)
          /\ media' = "found" => UNCHANGED sinceLastRequest
          /\ media = "found" => (sinceLastRequest' = 0 /\ mresp' = 200)]_vars

\* a media file of a running generation was served after the session had
\* been idle, and the idle time starts again
C12_Witness ==
    /\ mresp = 200 /\ sinceLastRequest = 0
    /\ cmd # Nil /\ process[cmd] = "running" /\ active
    /\ \A r \in Req : req[r].pc = "done"

\* ---- C13 ----------------------------------------------------------------
\* the output reader of generation g takes a step
ReaderStep(g) == reader'[g] # reader[g]

\* C13: the output reader of a generation that a later Start superseded
\* writes neither m.sequence, m.playlist nor m.active and neither sends on
\* nor closes the handoff channel of the current generation; and outside
\* Start the sequence count is the number of reads of the current
\* generation's reader
C13_NoStaleWrites ==
    /\ [][\A g \in Gen :
            (ReaderStep(g) /\ cmd # Nil /\ g # cmd)
            => /\ UNCHANGED <<sequence, playlist, active>>
               /\ sendCh'[g] # cmd
               /\ cmd \notin plClosed' \ plClosed]_vars
    /\ []((cmd # Nil /\ mu = Free) => sequence = nread[cmd])

\* ---- C14 ----------------------------------------------------------------
\* the generations whose output reader, or reaper, has not returned
RunningReaders == {g \in Gen : reader[g] \notin {"none", "done"}}
RunningReapers == {g \in Gen : reaper[g] \notin {"none", "done"}}

\* C14: a reaper waits on the shutdown channel of its own generation, and
\* whenever every goroutine has run as far as it can without time passing,
\* the only output reader and the only reaper still running are those of
\* the generation the handle refers to, which was not shut down
C14_TasksEndWithGeneration ==
    /\ \A g \in Gen : reaper[g] = "select" => rch[g] = g
    /\ Quiescent
       => \A g \in RunningReaders \cup RunningReapers :
             g = cmd /\ shutdown = g /\ g \notin sdClosed

\* ---- C15 ----------------------------------------------------------------
\* C15: a read of the output reader of the current generation replaces
\* m.playlist by the next chunk in emission order and adds one to
\* m.sequence; and whenever every goroutine has run as far as it can, the
\* reader of a generation that was not shut down is back in Read (it is not
\* blocked at the activation step)
C15_ReaderKeepsCurrent ==
    /\ [][\A g \in Gen :
            (reader[g] = "read" /\ reader'[g] = "check" /\ g = cmd)
            => /\ playlist' = <<g, nread[g] + 1>>
               /\ nread'[g] = nread[g] + 1
               /\ sequence' = sequence + 1]_vars
    /\ []((Quiescent /\ cmd # Nil /\ shutdown = cmd /\ cmd \notin sdClosed)
          => reader[cmd] = "read")

\* ---- C16 ----------------------------------------------------------------
\* C16: the reader of generation g sends on and closes no handoff channel
\* but the one of g, it closes it in the step after its send was received,
\* and no reader is about to send on, or to close, a closed channel
C16_HandoffOnce ==
    /\ [][\A g \in Gen :
            ReaderStep(g)
            => /\ sendCh'[g] \in {NewChan, g}
               /\ (plClosed' \ plClosed) \subseteq {g}]_vars
    /\ [](\A g \in Gen :
            /\ reader[g] = "send" => sendCh[g] \notin plClosed
            /\ reader[g] = "close" => playlistLoad \notin plClosed)

\* ---- C17 ----------------------------------------------------------------
\* request r writes its response in this step
Answers(r) == resp[r] = NoResp /\ resp'[r] # NoResp

\* C17: a request that answers 200 writes a playlist revision of the
\* generation the handle refers to, numbered hlsMinimumSegments or above
C17_NonEmpty200 ==
    [][\A r \in Req :
         (Answers(r) /\ resp'[r].code = 200)
         => /\ resp'[r].body # Empty
            /\ resp'[r].body[1] = cmd
            /\ resp'[r].body[2] >= hlsMinimumSegments]_vars

\* ---- C18 ----------------------------------------------------------------
\* C18: a request whose call of Start finds that another request started
\* the session is not answered with that error; it goes on to the active
\* check
C18_ConcurrentLazyStart ==
    [][\A r \in Req :
         (StartCalled(r) /\ cmd # Nil)
         => (req'[r].pc = "checkActive" /\ resp'[r] = NoResp)]_vars

\* ---- C19 ----------------------------------------------------------------
\* C19: when the Stop called by Cleanup takes effect, the session has been
\* idle for longer than the timeout that applies to it
C19_ReaperStopsIdleOnly ==
    [][\A g \in Gen :
         ReaperStopEffect(g)
         => \/ active /\ sinceLastRequest > activeIdleTimeout
            \/ ~active /\ sinceLastRequest > inactiveIdleTimeout]_vars

\* ---- C20 ----------------------------------------------------------------
\* C20: outside Start, a session that has a handle has an open shutdown
\* channel, so that Stop closes no closed channel, and a request that finds
\* the handle finds a shutdown channel that is open
C20_ShutdownClosedOnce ==
    /\ []((cmd # Nil /\ mu = Free) => shutdown \notin sdClosed)
    /\ [][\A r \in Req :
            (req[r].pc = "checkCmd" /\ req'[r].pc = "checkActive")
            => shutdown \notin sdClosed]_vars

====
